---- MODULE Spec2Model ----
(***************************************************************************)
(* MonitorPro: the state kept by DashboardProvider (its useState cells),   *)
(* the mutators it hands out through DashboardContext, the alert timer,    *)
(* the metric series of Dashboard with its refresh timer, and the          *)
(* threshold classification used by the status cards.                      *)
(*                                                                         *)
(* React state is modelled as it behaves: every useState cell has the      *)
(* value of the last render (hooks) and a queue of updates not yet         *)
(* rendered (queue).  A mutator is a closure of the last render: it reads  *)
(* hooks and appends to queue.  Render processes every queue in order and  *)
(* recomputes what the component body computes.                            *)
(*                                                                         *)
(* Time is counted in seconds; Date.now() is now * 1000.                   *)
(***************************************************************************)
EXTENDS Integers, Sequences, FiniteSets, TLC

VARIABLES
    hooks,              \* useState cell name -> value as of the last render
    queue,              \* useState cell name -> updates queued since the last render
    notificationCount,  \* the value the last render computed
    now,                \* the clock, in seconds
    card,               \* the StatusCard drawn last since the last render
    mounted,            \* whether the page (DashboardProvider and Dashboard) is mounted
    timers              \* the intervals that are armed, in the order they were armed

vars == <<hooks, queue, notificationCount, now, card, mounted, timers>>

----------------------------------------------------------------------------
(* Bounds of the model *)

\* updates one useState cell may hold queued between two renders
MaxPending == 2
\* firings of the alert timer
MaxTicks == 2
\* the values and thresholds a status card is given are drawn from 0 .. MaxValue
MaxValue == 6
\* the clock at mount, in seconds
MountTime == 1000000
\* firings of the refresh timer of Dashboard
MaxRefresh == 1
\* what Math.random() returns, in hundredths, while the mount effect loads the series
MountRandom == 50

\* the period of the refresh timer, in seconds (60000 ms)
RefreshInterval == 60

\* the period of the alert timer, in seconds (30000 ms)
AlertInterval == 30

----------------------------------------------------------------------------
(* Values *)

RECURSIVE ToDigits(_)
\* the decimal digits of a non-negative integer, as a template literal prints it
ToDigits(n) == IF n < 10 THEN <<n>> ELSE Append(ToDigits(n \div 10), n % 10)

\* An alert id is the text after the fixed prefix "alert-", as a sequence of digits.
severities == <<"low", "medium", "high">>

sources == <<"Web Server 1", "API Server", "Database Primary",
             "Database Replica", "Cache Server", "Backup Server">>

descriptions == <<"CPU usage spike detected",
                  "Memory usage approaching threshold",
                  "Disk space running low",
                  "High network latency detected",
                  "Error rate increased",
                  "Service restarted unexpectedly",
                  "Connection timeout",
                  "Database query performance degraded">>

generateMockAlerts(t) ==
    << [id |-> <<0, 0, 1>>, timestamp |-> t - 5 * 60, severity |-> "high",
        source |-> "Web Server 1",
        description |-> "CPU usage exceeded 90% for 5 minutes",
        acknowledged |-> FALSE, dismissed |-> FALSE],
       [id |-> <<0, 0, 2>>, timestamp |-> t - 15 * 60, severity |-> "medium",
        source |-> "API Server",
        description |-> "Memory usage at 75%, approaching threshold",
        acknowledged |-> TRUE, dismissed |-> FALSE],
       [id |-> <<0, 0, 3>>, timestamp |-> t - 45 * 60, severity |-> "low",
        source |-> "Database Replica",
        description |-> "Replication lag increased to 5 seconds",
        acknowledged |-> FALSE, dismissed |-> FALSE],
       [id |-> <<0, 0, 4>>, timestamp |-> t - 120 * 60, severity |-> "high",
        source |-> "Cache Server",
        description |-> "Service restarted unexpectedly",
        acknowledged |-> FALSE, dismissed |-> FALSE],
       [id |-> <<0, 0, 5>>, timestamp |-> t - 180 * 60, severity |-> "high",
        source |-> "Backup Server",
        description |-> "Server unreachable, backup process failed",
        acknowledged |-> TRUE, dismissed |-> FALSE] >>

\* the keys of the thresholds object, in the order Object.entries lists them
ThresholdKeys == <<"cpu", "memory", "disk", "temperature", "network", "errors">>

Levels == {"warning", "critical"}

InitialThresholds ==
    [cpu         |-> [warning |-> 70, critical |-> 90],
     memory      |-> [warning |-> 70, critical |-> 90],
     disk        |-> [warning |-> 70, critical |-> 90],
     temperature |-> [warning |-> 30, critical |-> 40],
     network     |-> [warning |-> 80, critical |-> 95],
     errors      |-> [warning |-> 5, critical |-> 15]]

PanelHooks == {"showServersPanel", "showAlertsPanel", "showUsersPanel", "showReportsPanel"}

\* expandedWidget when no widget is expanded
null == "null"

\* the useState cells of DashboardProvider
ProviderHooks ==
    PanelHooks \cup {"alerts", "thresholds", "activeSidebarItem", "isLandingPage",
                     "darkMode", "timeRange", "showSidebar", "showNotifications",
                     "showSettings", "expandedWidget"}

\* the useState cells of Dashboard (its list of servers is not modelled)
DashboardHooks == {"data", "lastUpdate"}

HookNames == ProviderHooks \cup DashboardHooks

\* the argument of each useState call
useState(h, t) ==
    CASE h = "alerts" -> generateMockAlerts(t)
      [] h = "thresholds" -> InitialThresholds
      [] h = "activeSidebarItem" -> "dashboard"
      [] h = "isLandingPage" -> TRUE
      [] h = "darkMode" -> FALSE
      [] h = "timeRange" -> "24h"
      [] h = "showSidebar" -> TRUE
      [] h = "showNotifications" -> FALSE
      [] h = "showSettings" -> FALSE
      [] h = "expandedWidget" -> null
      [] h = "data" -> <<>>
      [] h = "lastUpdate" -> t
      [] h \in PanelHooks -> FALSE

----------------------------------------------------------------------------
(* The metric series *)

\* The values Math.random() is taken to return, in hundredths.  Every draw of one
\* call of generateMockData returns the same one, so that the bases drift as far
\* down (0) and as far up (99) as the number of samples lets them.
MetricRandom == {0, 99}

\* Math.floor(Math.random() * (max - min + 1)) + min, with Math.random() = r / 100
getRandomValue(min, max, r) == ((r * (max - min + 1)) \div 100) + min

\* Math.max that returns its second argument: a lower limit is not applied
MathMax_NoLimit(a, b) == b

MathMax(a, b) == IF a >= b THEN a ELSE b

MathMin(a, b) == IF a <= b THEN a ELSE b

\* the switch of generateMockData without its default branch
points_NoDefault(timeRange) ==
    CASE timeRange = "1h" -> 60
      [] timeRange = "24h" -> 24
      [] timeRange = "7d" -> 7
      [] timeRange = "30d" -> 30
      [] OTHER -> 0

\* the number of samples the switch of generateMockData chooses
points(timeRange) ==
    CASE timeRange = "1h" -> 60
      [] timeRange = "24h" -> 24
      [] timeRange = "7d" -> 7
      [] timeRange = "30d" -> 30
      [] OTHER -> 24

\* the time between two samples, in seconds
interval(timeRange) ==
    CASE timeRange = "1h" -> 60
      [] timeRange = "24h" -> 60 * 60
      [] timeRange = "7d" -> 24 * 60 * 60
      [] timeRange = "30d" -> 24 * 60 * 60
      [] OTHER -> 60 * 60

\* the timestamp of sample i counted from now - points * interval
SampleTimestamp_OffByOne(t, n, i, step) == t - (n - i) * step

\* the timestamp of sample i counted forward from the newest sample
SampleTimestamp_Reversed(t, n, i, step) == t - i * step

\* new Date(now.getTime() - (points - i - 1) * interval)
SampleTimestamp(t, n, i, step) == t - (n - i - 1) * step

\* the base values before the loop
InitialBases(r) ==
    [cpu |-> getRandomValue(30, 60, r),
     memory |-> getRandomValue(40, 70, r),
     disk |-> getRandomValue(50, 80, r),
     temp |-> getRandomValue(20, 30, r),
     network |-> getRandomValue(30, 70, r),
     errors |-> getRandomValue(0, 10, r),
     users |-> getRandomValue(50, 200, r),
     responseTime |-> getRandomValue(100, 500, r)]

\* data.push({ ... }) of iteration i
Sample(i, base, c) ==
    LET fluctuation == getRandomValue(-5, 5, c.r)
        cpuSpike == IF i = c.spikePoint THEN getRandomValue(20, 40, c.r) ELSE 0
        memorySpike == IF i = c.spikePoint THEN getRandomValue(15, 30, c.r) ELSE 0
    IN  [timestamp |-> SampleTimestamp(c.now, c.points, i, c.interval),
         cpu |-> MathMin(100, MathMax(0, base.cpu + fluctuation + cpuSpike)),
         memory |-> MathMin(100, MathMax(0, base.memory + fluctuation + memorySpike)),
         disk |-> MathMin(100, MathMax(0, base.disk + getRandomValue(-2, 2, c.r))),
         temperature |-> MathMin(50, MathMax(15, base.temp + getRandomValue(-3, 3, c.r))),
         network |-> MathMin(100, MathMax(0, base.network + getRandomValue(-10, 10, c.r))),
         errors |-> MathMax(0, base.errors + getRandomValue(-2, 3, c.r)),
         users |-> MathMax(0, base.users + getRandomValue(-20, 20, c.r)),
         responseTime |-> MathMax(50, base.responseTime + getRandomValue(-50, 50, c.r))]

\* the drift of the base values at the end of an iteration
Drift(base, r) ==
    [cpu |-> base.cpu + getRandomValue(-2, 2, r),
     memory |-> base.memory + getRandomValue(-1, 2, r),
     disk |-> base.disk + getRandomValue(0, 1, r),
     temp |-> base.temp + getRandomValue(-1, 1, r),
     network |-> base.network + getRandomValue(-5, 5, r),
     errors |-> base.errors + getRandomValue(-1, 1, r),
     users |-> base.users + getRandomValue(-10, 10, r),
     responseTime |-> base.responseTime + getRandomValue(-20, 20, r)]

RECURSIVE GenerateLoop(_, _, _)
\* for (let i = 0; i < points; i++) { ... }
GenerateLoop(i, base, c) ==
    IF i < c.points
    THEN <<Sample(i, base, c)>> \o GenerateLoop(i + 1, Drift(base, c.r), c)
    ELSE <<>>

\* generateMockData(timeRange) called at time t, Math.random() returning r / 100
generateMockData(timeRange, t, r) ==
    GenerateLoop(0, InitialBases(r),
                 [now |-> t, points |-> points(timeRange),
                  interval |-> interval(timeRange), r |-> r,
                  spikePoint |-> getRandomValue(0, points(timeRange) - 1, r)])

----------------------------------------------------------------------------
(* React: queued updates and rendering *)

\* setX(value)
SetValue(q, h, v) == [q EXCEPT ![h] = Append(@, [kind |-> "value", val |-> v])]

\* setAlerts((prevAlerts) => [newAlert, ...prevAlerts])
SetPrepend(q, h, a) == [q EXCEPT ![h] = Append(@, [kind |-> "prepend", val |-> a])]

\* the functional update of the alert timer as (prevAlerts) => [...prevAlerts, newAlert]
ApplyUpdate_Appends(prev, u) == IF u.kind = "value" THEN u.val ELSE prev \o <<u.val>>

ApplyUpdate(prev, u) == IF u.kind = "value" THEN u.val ELSE <<u.val>> \o prev

RECURSIVE ProcessQueue(_, _)
\* the value of a cell once its queued updates have been processed, in call order
ProcessQueue(prev, q) ==
    IF q = <<>> THEN prev ELSE ProcessQueue(ApplyUpdate(prev, Head(q)), Tail(q))

Unread(a) == ~a.acknowledged /\ ~a.dismissed

\* notificationCount with a filter that forgets the dismissed flag
NotificationCountOf_IgnoresDismissed(alerts) ==
    LET Unacknowledged(a) == ~a.acknowledged IN Len(SelectSeq(alerts, Unacknowledged))

\* notificationCount without its filter: alerts.length
NotificationCountOf_CountsAll(alerts) == Len(alerts)

\* alerts.filter((alert) => !alert.acknowledged && !alert.dismissed).length
NotificationCountOf(alerts) == Len(SelectSeq(alerts, Unread))

NotDismissed(a) == ~a.dismissed

\* AlertsPanel: alerts.filter((alert) => !alert.dismissed)
activeAlerts(alerts) == SelectSeq(alerts, NotDismissed)

\* NotificationsPanel: alerts.filter((alert) => !alert.acknowledged && !alert.dismissed)
NotificationsPanelAlerts(alerts) ==
    LET Shown(alert) == ~alert.acknowledged /\ ~alert.dismissed IN SelectSeq(alerts, Shown)

\* no cell holds more than MaxPending queued updates after the call
QueueBounded == \A h \in HookNames : Len(queue'[h]) <= MaxPending

\* no card is on screen
NoCard == [value |-> 0, warningThreshold |-> 0, criticalThreshold |-> 0,
           statusColor |-> "", statusClass |-> "", statusWord |-> ""]

\* setData(generateMockData(timeRange)); setLastUpdate(new Date())
LoadData(q, timeRange, t, r) ==
    SetValue(SetValue(q, "data", generateMockData(timeRange, t, r)), "lastUpdate", t)

\* setInterval(callback, period) in an effect with the given dependencies: the
\* callback is the closure of the render the effect belongs to
setInterval(ts, kind, deps) == Append(ts, [kind |-> kind, deps |-> deps])

\* the intervals of a kind (the alert timer, the refresh timer) that are armed
Armed(kind) == {i \in DOMAIN timers : timers[i].kind = kind}

\* a cleanup that does not clear its interval
clearInterval_Leaks(ts, kind) == ts

\* return () => clearInterval(interval): the cleanup of an effect clears the
\* interval that effect armed, which is the one of its kind armed last
clearInterval(ts, kind) ==
    LET armed == {i \in DOMAIN ts : ts[i].kind = kind}
    IN  IF armed = {} THEN ts
        ELSE LET last == CHOOSE i \in armed : \A j \in armed : j <= i
             IN  SubSeq(ts, 1, last - 1) \o SubSeq(ts, last + 1, Len(ts))

\* a render whose refresh effect has no dependency: the timer armed at mount stays
Render_NoRearm ==
    /\ queue # [h \in HookNames |-> <<>>]
    /\ hooks' = [h \in HookNames |-> ProcessQueue(hooks[h], queue[h])]
    /\ notificationCount' = NotificationCountOf(hooks'.alerts)
    /\ IF hooks'.timeRange # hooks.timeRange
       THEN \E r \in MetricRandom :
               queue' = LoadData([h \in HookNames |-> <<>>], hooks'.timeRange, now, r)
       ELSE queue' = [h \in HookNames |-> <<>>]
    /\ card' = NoCard
    /\ UNCHANGED <<now, mounted, timers>>

\* A render processes the queued updates, computes what the component bodies
\* compute and replaces what was on screen.  If timeRange is not what it was at
\* the last render, the two effects of Dashboard that depend on it run again:
\* the cleanup of the refresh timer, the load of the series, and setInterval.
Render ==
    /\ queue # [h \in HookNames |-> <<>>]
    /\ hooks' = [h \in HookNames |-> ProcessQueue(hooks[h], queue[h])]
    /\ notificationCount' = NotificationCountOf(hooks'.alerts)
    /\ IF hooks'.timeRange # hooks.timeRange
       THEN /\ \E r \in MetricRandom :
                  queue' = LoadData([h \in HookNames |-> <<>>], hooks'.timeRange, now, r)
            /\ timers' = setInterval(clearInterval(timers, "refresh"),
                                     "refresh", <<hooks'.timeRange>>)
       ELSE /\ queue' = [h \in HookNames |-> <<>>]
            /\ timers' = timers
    /\ card' = NoCard
    /\ UNCHANGED <<now, mounted>>

----------------------------------------------------------------------------
(* The right panels *)

toggleServersPanel(q) ==
    IF ~hooks.showServersPanel
    THEN SetValue(SetValue(SetValue(SetValue(q,
             "showServersPanel", ~hooks.showServersPanel),
             "showAlertsPanel", FALSE),
             "showUsersPanel", FALSE),
             "showReportsPanel", FALSE)
    ELSE SetValue(q, "showServersPanel", ~hooks.showServersPanel)

\* toggleAlertsPanel without its setShowServersPanel(false)
toggleAlertsPanel_KeepsServers(q) ==
    IF ~hooks.showAlertsPanel
    THEN SetValue(SetValue(SetValue(q,
             "showAlertsPanel", ~hooks.showAlertsPanel),
             "showUsersPanel", FALSE),
             "showReportsPanel", FALSE)
    ELSE SetValue(q, "showAlertsPanel", ~hooks.showAlertsPanel)

toggleAlertsPanel(q) ==
    IF ~hooks.showAlertsPanel
    THEN SetValue(SetValue(SetValue(SetValue(q,
             "showAlertsPanel", ~hooks.showAlertsPanel),
             "showServersPanel", FALSE),
             "showUsersPanel", FALSE),
             "showReportsPanel", FALSE)
    ELSE SetValue(q, "showAlertsPanel", ~hooks.showAlertsPanel)

\* toggleUsersPanel with setShowUsersPanel(true) for setShowUsersPanel(!showUsersPanel)
toggleUsersPanel_AlwaysShows(q) ==
    IF ~hooks.showUsersPanel
    THEN SetValue(SetValue(SetValue(SetValue(q,
             "showUsersPanel", TRUE),
             "showServersPanel", FALSE),
             "showAlertsPanel", FALSE),
             "showReportsPanel", FALSE)
    ELSE SetValue(q, "showUsersPanel", TRUE)

toggleUsersPanel(q) ==
    IF ~hooks.showUsersPanel
    THEN SetValue(SetValue(SetValue(SetValue(q,
             "showUsersPanel", ~hooks.showUsersPanel),
             "showServersPanel", FALSE),
             "showAlertsPanel", FALSE),
             "showReportsPanel", FALSE)
    ELSE SetValue(q, "showUsersPanel", ~hooks.showUsersPanel)

toggleReportsPanel(q) ==
    IF ~hooks.showReportsPanel
    THEN SetValue(SetValue(SetValue(SetValue(q,
             "showReportsPanel", ~hooks.showReportsPanel),
             "showServersPanel", FALSE),
             "showAlertsPanel", FALSE),
             "showUsersPanel", FALSE)
    ELSE SetValue(q, "showReportsPanel", ~hooks.showReportsPanel)

\* a consumer of the context calls one of the four toggles (a panel's close button)
TogglePanel(p) ==
    /\ queue' = CASE p = "servers" -> toggleServersPanel(queue)
                  [] p = "alerts" -> toggleAlertsPanel(queue)
                  [] p = "users" -> toggleUsersPanel(queue)
                  [] p = "reports" -> toggleReportsPanel(queue)
    /\ QueueBounded
    /\ UNCHANGED <<hooks, notificationCount, now, card, mounted, timers>>

Panels == {"servers", "alerts", "users", "reports"}

SidebarItems == {"dashboard"} \cup Panels

\* handleItemClick without its setActiveSidebarItem(item)
handleItemClick_NoMarker(item) ==
    /\ queue' = CASE item = "dashboard" -> SetValue(queue, "isLandingPage", FALSE)
                  [] item = "servers" -> toggleServersPanel(queue)
                  [] item = "alerts" -> toggleAlertsPanel(queue)
                  [] item = "users" -> toggleUsersPanel(queue)
                  [] item = "reports" -> toggleReportsPanel(queue)
                  [] OTHER -> queue
    /\ QueueBounded
    /\ UNCHANGED <<hooks, notificationCount, now, card, mounted, timers>>

\* Sidebar.handleItemClick
handleItemClick(item) ==
    /\ LET q == SetValue(queue, "activeSidebarItem", item)
       IN  queue' = CASE item = "dashboard" -> SetValue(q, "isLandingPage", FALSE)
                      [] item = "servers" -> toggleServersPanel(q)
                      [] item = "alerts" -> toggleAlertsPanel(q)
                      [] item = "users" -> toggleUsersPanel(q)
                      [] item = "reports" -> toggleReportsPanel(q)
                      [] OTHER -> q
    /\ QueueBounded
    /\ UNCHANGED <<hooks, notificationCount, now, card, mounted, timers>>

----------------------------------------------------------------------------
(* The navbar, the settings and the expanded widget *)

ChromeHooks == {"showSidebar", "showNotifications", "showSettings", "darkMode",
                "expandedWidget"}

\* a click on one of these controls is rendered before the next one is handled
ChromeIdle == \A h \in ChromeHooks : queue[h] = <<>>

toggleDarkMode ==
    /\ ChromeIdle
    /\ queue' = SetValue(queue, "darkMode", ~hooks.darkMode)
    /\ QueueBounded
    /\ UNCHANGED <<hooks, notificationCount, now, card, mounted, timers>>

toggleSidebar ==
    /\ ChromeIdle
    /\ queue' = SetValue(queue, "showSidebar", ~hooks.showSidebar)
    /\ QueueBounded
    /\ UNCHANGED <<hooks, notificationCount, now, card, mounted, timers>>

toggleNotifications ==
    /\ ChromeIdle
    /\ queue' = SetValue(queue, "showNotifications", ~hooks.showNotifications)
    /\ QueueBounded
    /\ UNCHANGED <<hooks, notificationCount, now, card, mounted, timers>>

\* toggleSettings that also closes the notifications dropdown
toggleSettings_ClosesNotifications ==
    /\ ChromeIdle
    /\ queue' = SetValue(SetValue(queue, "showSettings", ~hooks.showSettings),
                         "showNotifications", FALSE)
    /\ QueueBounded
    /\ UNCHANGED <<hooks, notificationCount, now, card, mounted, timers>>

toggleSettings ==
    /\ ChromeIdle
    /\ queue' = SetValue(queue, "showSettings", ~hooks.showSettings)
    /\ QueueBounded
    /\ UNCHANGED <<hooks, notificationCount, now, card, mounted, timers>>

\* the widgets a click expands (the first and the last card of Dashboard), and the
\* close button of ExpandedWidget
WidgetTargets == {"cpu", "responseTime", null}

setExpandedWidget(widget) ==
    /\ ChromeIdle
    /\ queue' = SetValue(queue, "expandedWidget", widget)
    /\ QueueBounded
    /\ UNCHANGED <<hooks, notificationCount, now, card, mounted, timers>>

----------------------------------------------------------------------------
(* The alerts *)

\* dismissAlert's map with { ...alert, dismissed: true, acknowledged: false }
MapDismissed_ClearsAcknowledged(alerts, id) ==
    [i \in 1 .. Len(alerts) |->
        IF alerts[i].id = id
        THEN [alerts[i] EXCEPT !.dismissed = TRUE, !.acknowledged = FALSE]
        ELSE alerts[i]]

\* dismissAlert's map as a filter: the alert is deleted instead of flagged
MapDismissed_Removes(alerts, id) ==
    LET Keep(a) == a.id # id IN SelectSeq(alerts, Keep)

\* alerts.map((alert) => (alert.id === id ? { ...alert, dismissed: true } : alert))
MapDismissed(alerts, id) ==
    [i \in 1 .. Len(alerts) |->
        IF alerts[i].id = id THEN [alerts[i] EXCEPT !.dismissed = TRUE] ELSE alerts[i]]

\* acknowledgeAlert's map with { ...alert, acknowledged: true, timestamp: 0 }
MapAcknowledged_Restamps(alerts, id) ==
    [i \in 1 .. Len(alerts) |->
        IF alerts[i].id = id
        THEN [alerts[i] EXCEPT !.acknowledged = TRUE, !.timestamp = 0]
        ELSE alerts[i]]

\* acknowledgeAlert's map without its id test: every alert is acknowledged
MapAcknowledged_All(alerts, id) ==
    [i \in 1 .. Len(alerts) |-> [alerts[i] EXCEPT !.acknowledged = TRUE]]

\* acknowledgeAlert's map with !== for ===: every other alert is acknowledged
MapAcknowledged_Inverted(alerts, id) ==
    [i \in 1 .. Len(alerts) |->
        IF alerts[i].id # id THEN [alerts[i] EXCEPT !.acknowledged = TRUE] ELSE alerts[i]]

\* acknowledgeAlert's map with { ...alert, acknowledged: !alert.acknowledged }
MapAcknowledged_Toggles(alerts, id) ==
    [i \in 1 .. Len(alerts) |->
        IF alerts[i].id = id
        THEN [alerts[i] EXCEPT !.acknowledged = ~alerts[i].acknowledged]
        ELSE alerts[i]]

\* alerts.map((alert) => (alert.id === id ? { ...alert, acknowledged: true } : alert))
MapAcknowledged(alerts, id) ==
    [i \in 1 .. Len(alerts) |->
        IF alerts[i].id = id THEN [alerts[i] EXCEPT !.acknowledged = TRUE] ELSE alerts[i]]

dismissAlert(id) ==
    /\ queue' = SetValue(queue, "alerts", MapDismissed(hooks.alerts, id))
    /\ QueueBounded
    /\ UNCHANGED <<hooks, notificationCount, now, card, mounted, timers>>

acknowledgeAlert(id) ==
    /\ queue' = SetValue(queue, "alerts", MapAcknowledged(hooks.alerts, id))
    /\ QueueBounded
    /\ UNCHANGED <<hooks, notificationCount, now, card, mounted, timers>>

\* an id no alert has: "alert-999"
MissingId == <<9, 9, 9>>

\* the ids a caller passes: those of the alerts listed first, and one that matches nothing
TargetPositions == {1, 2}

TargetIds ==
    {hooks.alerts[i].id : i \in TargetPositions \cap (1 .. Len(hooks.alerts))}
        \cup {MissingId}

\* The values Math.random() is taken to return, in tenths, for the three draws of
\* an injected alert.
SeverityRandom == {0, 9}
SourceRandom == {3}
DescriptionRandom == {6}

\* arr[Math.floor(Math.random() * arr.length)], with Math.random() = r / 10
PickRandom(arr, r) == arr[((r * Len(arr)) \div 10) + 1]

\* newAlert with an id made of the minute of the clock, not of its millisecond
newAlert_MinuteId(t, r1, r2, r3) ==
    [id |-> ToDigits(t \div 60), timestamp |-> t,
     severity |-> PickRandom(severities, r1),
     source |-> PickRandom(sources, r2),
     description |-> PickRandom(descriptions, r3),
     acknowledged |-> FALSE, dismissed |-> FALSE]

newAlert(t, r1, r2, r3) ==
    [id |-> ToDigits(t * 1000), timestamp |-> t,
     severity |-> PickRandom(severities, r1),
     source |-> PickRandom(sources, r2),
     description |-> PickRandom(descriptions, r3),
     acknowledged |-> FALSE, dismissed |-> FALSE]

\* the setInterval callback of DashboardProvider, 30 seconds after the last one
AlertTimerSkip ==
    /\ Armed("alerts") # {}
    /\ now < MountTime + MaxTicks * AlertInterval
    /\ now' = now + AlertInterval
    /\ UNCHANGED <<hooks, queue, notificationCount, card, mounted, timers>>

AlertTimerInject ==
    /\ Armed("alerts") # {}
    /\ now < MountTime + MaxTicks * AlertInterval
    /\ now' = now + AlertInterval
    /\ \E r1 \in SeverityRandom, r2 \in SourceRandom, r3 \in DescriptionRandom :
          queue' = SetPrepend(queue, "alerts", newAlert(now', r1, r2, r3))
    /\ QueueBounded
    /\ UNCHANGED <<hooks, notificationCount, card, mounted, timers>>

----------------------------------------------------------------------------
(* The thresholds *)

\* the metrics whose inputs the user edits, and the numbers typed into them
EditedKeys == {"cpu", "temperature"}

ThresholdInputs == {35, 80, 95}

\* updateThreshold that ignores its level argument: both levels of the metric
\* take the typed value
updateThreshold_BothLevels(key, level, value) ==
    /\ queue' = SetValue(queue, "thresholds",
                    [hooks.thresholds EXCEPT ![key] = [l \in Levels |-> value]])
    /\ QueueBounded
    /\ UNCHANGED <<hooks, notificationCount, now, card, mounted, timers>>

updateThreshold(key, level, value) ==
    /\ queue' = SetValue(queue, "thresholds",
                    [hooks.thresholds EXCEPT ![key] = [@ EXCEPT ![level] = value]])
    /\ QueueBounded
    /\ UNCHANGED <<hooks, notificationCount, now, card, mounted, timers>>

----------------------------------------------------------------------------
(* The time range and the series of Dashboard *)

\* the options of the select of SettingsPanel, and a string that is none of them
RangeKeys == {"1h", "24h", "7d", "30d", "90d"}

\* SettingsPanel: onChange={(e) => setTimeRange(e.target.value)}; a change event
\* is rendered before the next one is handled
setTimeRange(key) ==
    /\ queue["timeRange"] = <<>>
    /\ queue' = SetValue(queue, "timeRange", key)
    /\ QueueBounded
    /\ UNCHANGED <<hooks, notificationCount, now, card, mounted, timers>>

\* the setInterval callback of Dashboard, 60 seconds after the last one; it is the
\* closure of the render that armed it, with the timeRange of that render
RefreshTimer ==
    /\ now < MountTime + MaxRefresh * RefreshInterval
    /\ now' = now + RefreshInterval
    /\ \E i \in Armed("refresh"), r \in MetricRandom :
          queue' = LoadData(queue, timers[i].deps[1], now', r)
    /\ QueueBounded
    /\ UNCHANGED <<hooks, notificationCount, card, mounted, timers>>

----------------------------------------------------------------------------
(* The status cards *)

getStatusColor(value, warningThreshold, criticalThreshold) ==
    IF value >= criticalThreshold THEN "rgb(239, 68, 68)"
    ELSE IF value >= warningThreshold THEN "rgb(234, 179, 8)"
    ELSE "rgb(34, 197, 94)"

\* getStatusClass with its two tests in the other order
getStatusClass_WarningFirst(value, warningThreshold, criticalThreshold) ==
    IF value >= warningThreshold THEN "bg-yellow-500"
    ELSE IF value >= criticalThreshold THEN "bg-red-500"
    ELSE "bg-green-500"

getStatusClass(value, warningThreshold, criticalThreshold) ==
    IF value >= criticalThreshold THEN "bg-red-500"
    ELSE IF value >= warningThreshold THEN "bg-yellow-500"
    ELSE "bg-green-500"

\* the word a StatusCard (and a TemperatureCard) prints after "Status:"
StatusWord(value, warningThreshold, criticalThreshold) ==
    IF value < warningThreshold THEN "Normal"
    ELSE IF value < criticalThreshold THEN "Warning"
    ELSE "Critical"

\* one rendering of a StatusCard with the given props
StatusCard(value, warningThreshold, criticalThreshold) ==
    /\ card' = [value |-> value,
                warningThreshold |-> warningThreshold,
                criticalThreshold |-> criticalThreshold,
                statusColor |-> getStatusColor(value, warningThreshold, criticalThreshold),
                statusClass |-> getStatusClass(value, warningThreshold, criticalThreshold),
                statusWord |-> StatusWord(value, warningThreshold, criticalThreshold)]
    /\ UNCHANGED <<hooks, queue, notificationCount, now, mounted, timers>>

\* the metrics Dashboard shows in a StatusCard or a TemperatureCard
CardKeys == {"cpu", "memory", "disk", "temperature"}

\* Dashboard, once rendered, draws the card of a metric from the newest sample
\* (latestData) and from the thresholds of the context
DashboardCard(key) ==
    /\ queue = [h \in HookNames |-> <<>>]
    /\ hooks.data # <<>>
    /\ StatusCard(hooks.data[Len(hooks.data)][key],
                  hooks.thresholds[key].warning,
                  hooks.thresholds[key].critical)

----------------------------------------------------------------------------
(* Specifications *)

\* the cells once the page is mounted at time t: every cell has the argument of
\* its useState, and the mount effect of Dashboard has loaded the series
MountedHooks(t) ==
    [h \in HookNames |->
        IF h = "data"
        THEN generateMockData(useState("timeRange", t), t, MountRandom)
        ELSE useState(h, t)]

\* the intervals the mount effects arm: Dashboard's, then DashboardProvider's
MountedTimers(ts) ==
    setInterval(setInterval(ts, "refresh", <<useState("timeRange", 0)>>), "alerts", <<>>)

\* The state once DashboardProvider and Dashboard are mounted.
Init ==
    /\ now = MountTime
    /\ hooks = MountedHooks(now)
    /\ queue = [h \in HookNames |-> <<>>]
    /\ notificationCount = NotificationCountOf(hooks.alerts)
    /\ card = NoCard
    /\ mounted = TRUE
    /\ timers = MountedTimers(<<>>)

\* The page is left: the cleanups of the effects run and the cells are discarded
\* with the updates queued on them.  hooks keeps what the page showed last; Mount
\* does not read it.
Unmount ==
    /\ mounted
    /\ mounted' = FALSE
    /\ timers' = clearInterval(clearInterval(timers, "refresh"), "alerts")
    /\ queue' = [h \in HookNames |-> <<>>]
    /\ card' = NoCard
    /\ UNCHANGED <<hooks, notificationCount, now>>

\* The page is opened again: first render and mount effects.
Mount ==
    /\ ~mounted
    /\ mounted' = TRUE
    /\ hooks' = MountedHooks(now)
    /\ queue' = [h \in HookNames |-> <<>>]
    /\ notificationCount' = NotificationCountOf(hooks'.alerts)
    /\ card' = NoCard
    /\ timers' = MountedTimers(timers)
    /\ UNCHANGED now

\* setIsLandingPage as if the landing page replaced the Dashboard component and
\* the provider: their effects are cleaned up and both intervals cleared
setIsLandingPage_ClearsTimers(value) ==
    /\ queue["isLandingPage"] = <<>>
    /\ queue' = SetValue(queue, "isLandingPage", value)
    /\ QueueBounded
    /\ timers' = clearInterval(clearInterval(timers, "refresh"), "alerts")
    /\ UNCHANGED <<hooks, notificationCount, now, card, mounted>>

\* the logo of the sidebar (true) and the buttons of the landing page (false); a
\* click is rendered before the next one is handled
setIsLandingPage(value) ==
    /\ queue["isLandingPage"] = <<>>
    /\ queue' = SetValue(queue, "isLandingPage", value)
    /\ QueueBounded
    /\ UNCHANGED <<hooks, notificationCount, now, card, mounted, timers>>

\* the ranges chosen while the timers are followed: the initial one and another
PageRanges == {"24h", "7d"}

\* the time range is changed on a mounted page
RangeEvent == mounted /\ \E key \in PageRanges : setTimeRange(key)

NextTimers ==
    \/ RangeEvent
    \/ AlertTimerSkip
    \/ AlertTimerInject
    \/ RefreshTimer
    \/ Render
    \/ Unmount
    \/ Mount

SpecTimers == Init /\ [][NextTimers]_vars

NextLanding ==
    \/ \E value \in BOOLEAN : setIsLandingPage(value)
    \/ AlertTimerSkip
    \/ AlertTimerInject
    \/ RefreshTimer
    \/ Render

SpecLanding == Init /\ [][NextLanding]_vars

\* the theme, the other switches of the navbar and the widgets, on a mounted page
ThemeEvent ==
    /\ mounted
    /\ \/ toggleDarkMode
       \/ toggleSidebar
       \/ toggleNotifications
       \/ toggleSettings
       \/ \E widget \in WidgetTargets : setExpandedWidget(widget)

NextTheme ==
    \/ ThemeEvent
    \/ Render
    \/ Unmount
    \/ Mount

SpecTheme == Init /\ [][NextTheme]_vars

\* a click on an item of the sidebar, which Dashboard shows when it does not show
\* the landing page
SidebarClick(item) == ~hooks.isLandingPage /\ handleItemClick(item)

\* a click on the close button of a right panel, which is there when the panel is
ClosePanel(p) ==
    /\ ~hooks.isLandingPage
    /\ hooks[CASE p = "servers" -> "showServersPanel"
               [] p = "alerts" -> "showAlertsPanel"
               [] p = "users" -> "showUsersPanel"
               [] p = "reports" -> "showReportsPanel"]
    /\ TogglePanel(p)

NextSidebar ==
    \/ \E value \in BOOLEAN : setIsLandingPage(value)
    \/ \E item \in SidebarItems : SidebarClick(item)
    \/ \E p \in Panels : ClosePanel(p)
    \/ Render

SpecSidebar == Init /\ [][NextSidebar]_vars

NextPanels ==
    \/ \E p \in Panels : TogglePanel(p)
    \/ \E item \in SidebarItems : handleItemClick(item)
    \/ Render

SpecPanels == Init /\ [][NextPanels]_vars

NextAlerts ==
    \/ \E id \in TargetIds : dismissAlert(id)
    \/ \E id \in TargetIds : acknowledgeAlert(id)
    \/ AlertTimerSkip
    \/ AlertTimerInject
    \/ Render

SpecAlerts == Init /\ [][NextAlerts]_vars

NextThresholds ==
    \/ \E key \in EditedKeys, level \in Levels, value \in ThresholdInputs :
          updateThreshold(key, level, value)
    \/ Render

SpecThresholds == Init /\ [][NextThresholds]_vars

NextStatus ==
    \E value \in 0 .. MaxValue, w \in 1 .. MaxValue - 1, c \in 1 .. MaxValue - 1 :
        StatusCard(value, w, c)

SpecStatus == Init /\ [][NextStatus]_vars

NextChrome ==
    \/ toggleDarkMode
    \/ toggleSidebar
    \/ toggleNotifications
    \/ toggleSettings
    \/ \E widget \in WidgetTargets : setExpandedWidget(widget)
    \/ \E p \in Panels : TogglePanel(p)
    \/ Render

SpecChrome == Init /\ [][NextChrome]_vars

NextCards ==
    \/ \E key \in EditedKeys, level \in Levels, value \in ThresholdInputs :
          updateThreshold(key, level, value)
    \/ \E key \in CardKeys : DashboardCard(key)
    \/ Render

SpecCards == Init /\ [][NextCards]_vars

NextData ==
    \/ \E key \in RangeKeys : setTimeRange(key)
    \/ RefreshTimer
    \/ Render

SpecData == Init /\ [][NextData]_vars

----------------------------------------------------------------------------
(* Properties *)

\* the value a cell has once the updates queued on it are rendered
Pending(h) == ProcessQueue(hooks[h], queue[h])

Empty(h) == queue[h] = <<>>

PanelHookOf(p) ==
    CASE p = "servers" -> "showServersPanel"
      [] p = "alerts" -> "showAlertsPanel"
      [] p = "users" -> "showUsersPanel"
      [] p = "reports" -> "showReportsPanel"

\* the right panels that are visible, as rendered and as queued
ShownPanels == {p \in Panels : hooks[PanelHookOf(p)]}

PendingPanels == {p \in Panels : Pending(PanelHookOf(p))}

\* C1: at most one of the four right panels is visible, in the rendered state and
\* in the state the queued updates lead to, whatever toggles were called and however
\* many of them were called from one render.
C1_AtMostOnePanel ==
    /\ Cardinality(ShownPanels) <= 1
    /\ Cardinality(PendingPanels) <= 1

\* users is visible; toggleServersPanel and then toggleAlertsPanel were called from
\* that one render, and alerts is the panel that will be shown
C1_Witness ==
    /\ ShownPanels = {"users"}
    /\ Len(queue["showServersPanel"]) = 2
    /\ Len(queue["showAlertsPanel"]) = 2
    /\ PendingPanels = {"alerts"}

\* C2: a toggle of a hidden panel leaves exactly that panel visible; a toggle of the
\* visible panel, called on the rendered state, leaves all four hidden; a render
\* shows what the calls left.
C2_ToggleEffect ==
    [][ /\ \A p \in Panels :
              (TogglePanel(p) \/ handleItemClick(p)) =>
                  /\ p \notin ShownPanels => PendingPanels' = {p}
                  /\ (p \in ShownPanels /\ \A h \in PanelHooks : Empty(h))
                        => PendingPanels' = {}
        /\ Render => ShownPanels' = PendingPanels ]_vars

\* alerts is visible, servers is not, and toggleAlertsPanel has been called again
C2_Witness ==
    /\ ShownPanels = {"alerts"}
    /\ queue["showAlertsPanel"] = <<[kind |-> "value", val |-> FALSE]>>
    /\ \A h \in PanelHooks \ {"showAlertsPanel"} : Empty(h)
    /\ PendingPanels = {}

----------------------------------------------------------------------------
(* Properties of the alerts *)

Ids(alerts) == {alerts[i].id : i \in DOMAIN alerts}

\* the alert of a list that has the given id (ids are looked up by the callers)
AlertsWithId(alerts, id) == {alerts[i] : i \in {j \in DOMAIN alerts : alerts[j].id = id}}

\* how many alerts are neither acknowledged nor dismissed
UnreadCount(alerts) ==
    Cardinality({i \in DOMAIN alerts : ~alerts[i].acknowledged /\ ~alerts[i].dismissed})

OtherCellsUntouched(h) ==
    /\ hooks' = hooks
    /\ \A g \in HookNames \ {h} : queue'[g] = queue[g]
    /\ UNCHANGED <<notificationCount, now, card, mounted, timers>>

\* C3: an alert id that is in the alerts collection (the value of the alerts cell,
\* queued updates included) is in it after every step.
C3_NeverRemoved ==
    [][Ids(Pending("alerts")) \subseteq Ids(Pending("alerts")')]_vars

\* C4: dismissAlert(id) of an alert of the list leaves the list with that alert in
\* it, flagged dismissed and otherwise as it was, and out of activeAlerts.
C4_DismissHidesKeeps ==
    [][\A id \in TargetIds :
          (dismissAlert(id) /\ id \in Ids(hooks.alerts)) =>
              LET after == Pending("alerts")' IN
              /\ id \notin Ids(activeAlerts(after))
              /\ AlertsWithId(after, id) =
                    {[a EXCEPT !.dismissed = TRUE] : a \in AlertsWithId(hooks.alerts, id)}
              /\ Len(after) = Len(hooks.alerts)]_vars

\* alert-001 has been dismissed and rendered: it is in alerts, not in activeAlerts
C4_Witness ==
    /\ \E a \in AlertsWithId(hooks.alerts, <<0, 0, 1>>) : a.dismissed
    /\ <<0, 0, 1>> \notin Ids(activeAlerts(hooks.alerts))
    /\ Empty("alerts")

\* C5: acknowledgeAlert of an alert that is neither acknowledged nor dismissed
\* leaves a list whose notificationCount is one less than the rendered one;
\* dismissAlert of that alert, once acknowledged, leaves the count as it is and the
\* alert out of activeAlerts; acknowledgeAlert of an alert already acknowledged or
\* dismissed leaves the count as it is.
C5_AcknowledgeThenDismiss ==
    [][\A id \in TargetIds : \A a \in AlertsWithId(hooks.alerts, id) :
          /\ (acknowledgeAlert(id) /\ ~a.acknowledged /\ ~a.dismissed)
                => UnreadCount(Pending("alerts")') = notificationCount - 1
          /\ (acknowledgeAlert(id) /\ (a.acknowledged \/ a.dismissed))
                => UnreadCount(Pending("alerts")') = notificationCount
          /\ (dismissAlert(id) /\ a.acknowledged /\ ~a.dismissed)
                => /\ UnreadCount(Pending("alerts")') = notificationCount
                   /\ id \notin Ids(activeAlerts(Pending("alerts")'))]_vars

\* alert-001, unread at first, was acknowledged and rendered (the count fell from 3
\* to 2), and dismissAlert has now been called on it: the count stays 2
C5_Witness ==
    /\ \E a \in AlertsWithId(hooks.alerts, <<0, 0, 1>>) : a.acknowledged /\ ~a.dismissed
    /\ notificationCount = 2
    /\ queue["alerts"] # <<>>
    /\ \E a \in AlertsWithId(Pending("alerts"), <<0, 0, 1>>) : a.acknowledged /\ a.dismissed
    /\ UnreadCount(Pending("alerts")) = 2

\* C6: the rendered notificationCount is the number of rendered alerts that are
\* neither acknowledged nor dismissed.
C6_CountIsDerived == notificationCount = UnreadCount(hooks.alerts)

\* an alert was injected, one was dismissed, and the count was rendered with them
C6_Witness ==
    /\ Len(hooks.alerts) = 6
    /\ \E i \in DOMAIN hooks.alerts : hooks.alerts[i].dismissed /\ ~hooks.alerts[i].acknowledged
    /\ notificationCount = 3

----------------------------------------------------------------------------
(* Properties of the thresholds and of the status cards *)

\* C8: updateThreshold(key, level, value) leaves, for the next render, the rendered
\* thresholds with thresholds[key][level] = value and every other level of every
\* metric as rendered; no other cell and nothing rendered is touched.
C8_UpdateThresholdFrame ==
    [][\A key \in EditedKeys, level \in Levels, value \in ThresholdInputs :
          updateThreshold(key, level, value) =>
              LET after == Pending("thresholds")' IN
              /\ after[key][level] = value
              /\ \A k \in DOMAIN hooks.thresholds, l \in Levels :
                    (k # key \/ l # level) => after[k][l] = hooks.thresholds[k][l]
              /\ DOMAIN after = DOMAIN hooks.thresholds
              /\ OtherCellsUntouched("thresholds")]_vars

\* updateThreshold("cpu", "warning", 80) was called on the initial thresholds and
\* rendered: cpu.warning is 80 and nothing else differs
C8_Witness ==
    hooks.thresholds = [InitialThresholds EXCEPT !["cpu"]["warning"] = 80]

\* C9: every metric's warning threshold is at most its critical threshold.
C9_WarningAtMostCritical ==
    \A k \in DOMAIN hooks.thresholds :
        hooks.thresholds[k].warning <= hooks.thresholds[k].critical

Red == [color |-> "rgb(239, 68, 68)", class |-> "bg-red-500"]

Yellow == [color |-> "rgb(234, 179, 8)", class |-> "bg-yellow-500"]

Green == [color |-> "rgb(34, 197, 94)", class |-> "bg-green-500"]

\* C10: for every value v and thresholds w and c, in whatever order w and c are, a
\* card is red when v >= c, else yellow when v >= w, else green, and its colour and
\* its class are those of the same status.
C10_Classification ==
    card # NoCard =>
        LET v == card.value
            w == card.warningThreshold
            c == card.criticalThreshold
            shown == [color |-> card.statusColor, class |-> card.statusClass]
        IN  /\ v >= c => shown = Red
            /\ (v < c /\ v >= w) => shown = Yellow
            /\ (v < c /\ v < w) => shown = Green

\* a card whose warning threshold is above its critical one, with a value between
\* the two: it is red
C10_Witness ==
    /\ card # NoCard
    /\ card.criticalThreshold < card.warningThreshold
    /\ card.criticalThreshold <= card.value
    /\ card.value < card.warningThreshold
    /\ card.statusColor = "rgb(239, 68, 68)"
    /\ card.statusClass = "bg-red-500"

\* C11: a card whose value is below its warning threshold is Normal (green,
\* bg-green-500), for every value of the series and every pair of thresholds that
\* updateThreshold leads to.
C11_BelowWarningIsNormal ==
    (card # NoCard /\ card.value < card.warningThreshold) =>
        [color |-> card.statusColor, class |-> card.statusClass] = Green

\* the status a colour and a class stand for (README: Green: Normal, Yellow:
\* Warning, Red: Critical)
WordOf(shown) ==
    CASE shown = Green -> "Normal"
      [] shown = Yellow -> "Warning"
      [] shown = Red -> "Critical"
      [] OTHER -> ""

\* C12: the word a card prints after "Status:" names the status its colour and its
\* class stand for, for every value of the series and every pair of thresholds
\* that updateThreshold leads to.
C12_WordNamesColour ==
    card # NoCard =>
        card.statusWord = WordOf([color |-> card.statusColor, class |-> card.statusClass])

----------------------------------------------------------------------------
(* Properties of the metric series *)

\* a step in which generateMockData was called and its result queued for Dashboard
SeriesLoaded == queue'["data"] # <<>> /\ queue'["data"] # queue["data"]

\* the series that step queued
LoadedSeries == queue'["data"][Len(queue'["data"])].val

\* the series has n samples, step seconds apart, the last one at time t
HasShape(series, n, step, t) ==
    /\ Len(series) = n
    /\ \A i \in 1 .. n - 1 : series[i + 1].timestamp - series[i].timestamp = step
    /\ series[n].timestamp = t

\* C13: generateMockData returns 60 samples one minute apart for "1h", 24 samples
\* one hour apart for "24h", 7 samples one day apart for "7d" and 30 samples one day
\* apart for "30d"; the last sample has the time of the call.
C13_PointsAndSpacing ==
    [][SeriesLoaded =>
          /\ hooks'.timeRange = "1h" => HasShape(LoadedSeries, 60, 60, now')
          /\ hooks'.timeRange = "24h" => HasShape(LoadedSeries, 24, 3600, now')
          /\ hooks'.timeRange = "7d" => HasShape(LoadedSeries, 7, 86400, now')
          /\ hooks'.timeRange = "30d" => HasShape(LoadedSeries, 30, 86400, now')]_vars

\* the series of "1h", loaded by the refresh timer a minute after mount, is shown
C13_Witness ==
    /\ hooks.timeRange = "1h"
    /\ now = MountTime + RefreshInterval
    /\ HasShape(hooks.data, 60, 60, now)
    /\ queue["data"] = <<>>

\* C14: for a key that is none of "1h", "24h", "7d", "30d", generateMockData
\* returns the series of its default branch, 24 samples one hour apart ending at
\* the time of the call; setTimeRange takes the key as it takes any string.
C14_DefaultBranch ==
    [][(SeriesLoaded /\ hooks'.timeRange \notin {"1h", "24h", "7d", "30d"}) =>
          HasShape(LoadedSeries, 24, 3600, now')]_vars

\* setTimeRange("90d") was called on the series of "7d" and rendered, and the series
\* loaded for it is shown
C14_Witness ==
    /\ hooks.timeRange = "90d"
    /\ HasShape(hooks.data, 24, 3600, now)
    /\ hooks.lastUpdate = now
    /\ queue["data"] = <<>>

\* the value of a sample is in the domain of its metric
InDomain(sample) ==
    /\ 0 <= sample.cpu /\ sample.cpu <= 100
    /\ 0 <= sample.memory /\ sample.memory <= 100
    /\ 0 <= sample.disk /\ sample.disk <= 100
    /\ 0 <= sample.network /\ sample.network <= 100
    /\ 15 <= sample.temperature /\ sample.temperature <= 50
    /\ sample.errors >= 0
    /\ sample.users >= 0
    /\ sample.responseTime >= 50

\* every series of the data cell: the one shown and the ones queued
AllSeries == {hooks.data} \cup {queue["data"][i].val : i \in DOMAIN queue["data"]}

\* C15: every sample of every series, the one shown and the ones loaded by a range
\* change or by the refresh timer, is in the domain of its metrics, however far
\* the base values have drifted.
C15_SamplesInDomain ==
    \A series \in AllSeries : \A i \in DOMAIN series : InDomain(series[i])

\* a series of 60 samples loaded by the refresh timer is shown: its base values
\* drifted below every lower limit (cpu 0, temperature 15, users 0, response time 50)
C15_Witness ==
    /\ now > MountTime
    /\ Len(hooks.data) = 60
    /\ LET last == hooks.data[60]
       IN  /\ last.cpu = 0 /\ last.memory = 0 /\ last.network = 0
           /\ last.temperature = 15
           /\ last.errors = 0 /\ last.users = 0
           /\ last.responseTime = 50

\* the series is in strictly ascending order of time, in steps of the interval of
\* the range key, and has the number of samples of that key
AscendingFor(series, key) ==
    /\ Len(series) = points(key)
    /\ \A i \in 1 .. Len(series) - 1 :
          /\ series[i].timestamp < series[i + 1].timestamp
          /\ series[i + 1].timestamp - series[i].timestamp = interval(key)

\* the times at which a series can have been loaded: mount and the timer's firings
LoadTimes == {MountTime + k * RefreshInterval : k \in 0 .. MaxRefresh}

\* C16: the series Dashboard shows is in strictly ascending order of time with the
\* interval of the range it was requested for between consecutive samples (the
\* rendered timeRange once nothing is queued for the series), and it changes only
\* by being replaced with a series generateMockData returned for the range rendered
\* before, after a range change or a firing of the refresh timer.
C16_AscendingReplacedWhole ==
    /\ [](\E key \in RangeKeys : AscendingFor(hooks.data, key))
    /\ [](queue["data"] = <<>> => AscendingFor(hooks.data, hooks.timeRange))
    /\ [][hooks'.data # hooks.data =>
             /\ Render
             /\ queue["data"] # <<>>
             /\ hooks'.data = queue["data"][Len(queue["data"])].val
             /\ \E r \in MetricRandom, t \in LoadTimes :
                   hooks'.data = generateMockData(hooks.timeRange, t, r)]_vars

\* the series of "7d", requested by a range change and loaded again by the refresh
\* timer, is shown: 7 samples a day apart, the last one at the time of the refresh
C16_Witness ==
    /\ hooks.timeRange = "7d"
    /\ now > MountTime
    /\ Len(hooks.data) = 7
    /\ hooks.data[7].timestamp = now
    /\ hooks.data[7].timestamp - hooks.data[1].timestamp = 6 * 86400
    /\ queue["data"] = <<>>

----------------------------------------------------------------------------
(* Properties of the alerts over an execution *)

\* the fields of an alert that are given to it when it is made
Created(a) ==
    [id |-> a.id, severity |-> a.severity, description |-> a.description,
     timestamp |-> a.timestamp, source |-> a.source]

\* C17: an alert that is acknowledged (dismissed) in the rendered list is in every
\* later rendered list, acknowledged (dismissed): no mutator, no firing of the
\* timer and no render takes a rendered flag back.
C17_FlagsMonotone ==
    [][\A a \in {hooks.alerts[i] : i \in DOMAIN hooks.alerts} :
          /\ AlertsWithId(hooks'.alerts, a.id) # {}
          /\ \A b \in AlertsWithId(hooks'.alerts, a.id) :
                /\ a.acknowledged => b.acknowledged
                /\ a.dismissed => b.dismissed]_vars

\* alert-001 was acknowledged and rendered, then an alert was injected and alert-001
\* dismissed and rendered: it has both flags
C17_Witness ==
    /\ Len(hooks.alerts) = 6
    /\ now > MountTime
    /\ \E a \in AlertsWithId(hooks.alerts, <<0, 0, 1>>) : a.acknowledged /\ a.dismissed
    /\ Empty("alerts")

\* the positions at which two lists of the same alerts differ
ChangedPositions(before, after) ==
    {i \in DOMAIN before : i \notin DOMAIN after \/ after[i] # before[i]}

\* C18: the id, severity, description, timestamp and source of a rendered alert are
\* the same in every later rendered list; acknowledgeAlert and dismissAlert leave,
\* for the next render, the rendered list with nothing but the acknowledged
\* (dismissed) flag of the alerts with the given id set, and an injection leaves
\* every alert of the list as it is, behind the new one.
C18_CreatedFieldsFixed ==
    [][ /\ \A i \in DOMAIN hooks.alerts :
              \E j \in DOMAIN hooks'.alerts :
                  Created(hooks'.alerts[j]) = Created(hooks.alerts[i])
        /\ \A id \in TargetIds :
              /\ acknowledgeAlert(id) =>
                    Pending("alerts")' =
                        [i \in DOMAIN hooks.alerts |->
                            IF hooks.alerts[i].id = id
                            THEN [hooks.alerts[i] EXCEPT !.acknowledged = TRUE]
                            ELSE hooks.alerts[i]]
              /\ dismissAlert(id) =>
                    Pending("alerts")' =
                        [i \in DOMAIN hooks.alerts |->
                            IF hooks.alerts[i].id = id
                            THEN [hooks.alerts[i] EXCEPT !.dismissed = TRUE]
                            ELSE hooks.alerts[i]]
        /\ AlertTimerInject => Tail(Pending("alerts")') = Pending("alerts") ]_vars

\* an injected alert was acknowledged and alert-001 dismissed, in two renders: the
\* other fields of both are those they were made with
C18_Witness ==
    /\ Len(hooks.alerts) = 6
    /\ hooks.alerts[1].acknowledged /\ ~hooks.alerts[1].dismissed
    /\ Created(hooks.alerts[1]) = Created(newAlert(hooks.alerts[1].timestamp, 9, 3, 6))
    /\ hooks.alerts[2].dismissed /\ ~hooks.alerts[2].acknowledged
    /\ Created(hooks.alerts[2]) = Created(generateMockAlerts(MountTime)[1])
    /\ Empty("alerts")

\* no two alerts of the list have the same id
UniqueIds(alerts) == Cardinality(Ids(alerts)) = Len(alerts)

\* C19: no two alerts have the same id, in the rendered list and in the list the
\* queued updates lead to, so that acknowledgeAlert and dismissAlert change at
\* most one alert of the rendered list.
C19_UniqueIds ==
    /\ [](UniqueIds(hooks.alerts) /\ UniqueIds(Pending("alerts")))
    /\ [][\A id \in TargetIds :
             (acknowledgeAlert(id) \/ dismissAlert(id)) =>
                 Cardinality(ChangedPositions(hooks.alerts, Pending("alerts")')) <= 1]_vars

\* two alerts were injected, 30 seconds apart, and rendered, and acknowledgeAlert
\* was called with the id of the newer one: it is the one alert that changes
C19_Witness ==
    /\ Len(hooks.alerts) = 7
    /\ hooks.alerts[1].timestamp = hooks.alerts[2].timestamp + AlertInterval
    /\ UniqueIds(hooks.alerts)
    /\ queue["alerts"] # <<>>
    /\ ChangedPositions(hooks.alerts, Pending("alerts")) = {1}
    /\ Pending("alerts")[1].acknowledged

----------------------------------------------------------------------------
(* Properties of the navbar, the settings and the expanded widget *)

\* the call queued one update, of the cell h, and touched nothing else
OnlyCell(h, value) ==
    /\ queue'[h] = Append(queue[h], [kind |-> "value", val |-> value])
    /\ OtherCellsUntouched(h)

\* C20: toggleSidebar, toggleNotifications, toggleSettings and toggleDarkMode each
\* queue the negation of their own rendered flag, and setExpandedWidget its
\* argument, and nothing else: the four panel flags, the other four of the five
\* fields, alerts, thresholds and timeRange are as they were, rendered and
\* queued.  A toggle of a right panel leaves the five fields, alerts, thresholds
\* and timeRange as they were.
C20_ChromeFrame ==
    [][ /\ toggleSidebar => OnlyCell("showSidebar", ~hooks.showSidebar)
        /\ toggleNotifications => OnlyCell("showNotifications", ~hooks.showNotifications)
        /\ toggleSettings => OnlyCell("showSettings", ~hooks.showSettings)
        /\ toggleDarkMode => OnlyCell("darkMode", ~hooks.darkMode)
        /\ \A widget \in WidgetTargets :
              setExpandedWidget(widget) => OnlyCell("expandedWidget", widget)
        /\ \A p \in Panels :
              TogglePanel(p) =>
                  /\ hooks' = hooks
                  /\ \A h \in HookNames \ PanelHooks : queue'[h] = queue[h]
        /\ Render =>
              \A h \in ChromeHooks \cup PanelHooks \cup {"alerts", "thresholds", "timeRange"} :
                  hooks'[h] = Pending(h) ]_vars

\* the sidebar is hidden, the settings and the dark mode are on, a widget is
\* expanded, the users panel is shown, and toggleNotifications has been called
\* after toggleAlertsPanel: only showNotifications and the panel flags have
\* updates queued
C20_Witness ==
    /\ ~hooks.showSidebar /\ hooks.showSettings /\ hooks.darkMode
    /\ hooks.expandedWidget = "cpu"
    /\ ShownPanels = {"users"}
    /\ PendingPanels = {"alerts"}
    /\ queue["showNotifications"] = <<[kind |-> "value", val |-> TRUE]>>
    /\ \A h \in HookNames \ (PanelHooks \cup {"showNotifications"}) : Empty(h)
    /\ hooks.alerts = generateMockAlerts(MountTime)
    /\ hooks.thresholds = InitialThresholds
    /\ hooks.timeRange = "24h"

----------------------------------------------------------------------------
(* Properties of the page over mounts, and of its timers *)

\* C21: when the page is mounted again, darkMode has the value it had when the page
\* was left, which is the theme the user selected last.
C21_ThemePersisted ==
    [][Mount => hooks'.darkMode = hooks.darkMode]_vars

\* C22: a firing of the alert timer that injects nothing leaves the alerts, rendered
\* and queued, as they are; a firing that injects puts one alert that no list had,
\* neither acknowledged nor dismissed, in front of the list the queued updates
\* lead to, whose alerts follow in their order and unchanged; the count of unread
\* alerts of that list is one more, and so is notificationCount once the
\* injection is rendered.
C22_TimerFiring ==
    [][ /\ AlertTimerSkip =>
              /\ hooks'.alerts = hooks.alerts
              /\ queue'["alerts"] = queue["alerts"]
        /\ AlertTimerInject =>
              LET before == Pending("alerts")
                  after == Pending("alerts")'
              IN  /\ hooks'.alerts = hooks.alerts
                  /\ Len(after) = Len(before) + 1
                  /\ Tail(after) = before
                  /\ after[1].id \notin Ids(before)
                  /\ ~after[1].acknowledged /\ ~after[1].dismissed
                  /\ NotificationCountOf(after) = NotificationCountOf(before) + 1
        /\ (Render /\ Len(queue["alerts"]) = 1 /\ queue["alerts"][1].kind = "prepend") =>
              /\ notificationCount' = notificationCount + 1
              /\ Tail(hooks'.alerts) = hooks.alerts ]_vars

\* the timer fired twice, injected at its second firing, and the alert was
\* rendered: it is in front of the five initial alerts and the count is 4
C22_Witness ==
    /\ now = MountTime + 2 * AlertInterval
    /\ Len(hooks.alerts) = 6
    /\ hooks.alerts[1].timestamp = now
    /\ ~hooks.alerts[1].acknowledged /\ ~hooks.alerts[1].dismissed
    /\ Tail(hooks.alerts) = generateMockAlerts(MountTime)
    /\ notificationCount = 4

\* C23: at most one interval of the alert timer and at most one of the refresh
\* timer are armed, whatever mounts, renders, range changes and unmounts there
\* were; once the page is unmounted no interval is armed and no update is queued,
\* and nothing changes until the page is mounted again.
C23_TimersNeverAccumulate ==
    /\ [](/\ Cardinality(Armed("alerts")) <= 1
          /\ Cardinality(Armed("refresh")) <= 1
          /\ ~mounted => (timers = <<>> /\ queue = [h \in HookNames |-> <<>>]))
    /\ [][~mounted => Mount]_vars

\* the timers fired, the page was left and opened again: the two intervals of the
\* new mount are the only ones armed
C23_Witness ==
    /\ mounted
    /\ now > MountTime
    /\ hooks = MountedHooks(now)
    /\ timers = <<[kind |-> "refresh", deps |-> <<"24h">>], [kind |-> "alerts", deps |-> <<>>]>>

\* C24: a render in which timeRange changes to r clears the armed refresh interval,
\* arms one whose callback has r, and loads the series of r at once; the series
\* that is shown once the load is rendered has the number of samples of r, and
\* every firing of the refresh timer loads the series of the range that is
\* rendered then, never of one rendered before.
C24_RangeSwitchRearms ==
    /\ [](mounted =>
            /\ \A i \in Armed("refresh") : timers[i].deps = <<hooks.timeRange>>
            /\ Armed("refresh") # {}
            /\ Len(Pending("data")) = points(hooks.timeRange))
    /\ [][ /\ (Render /\ hooks'.timeRange # hooks.timeRange) =>
                /\ {timers'[i] : i \in DOMAIN timers'} =
                      {[kind |-> "alerts", deps |-> <<>>],
                       [kind |-> "refresh", deps |-> <<hooks'.timeRange>>]}
                /\ Len(timers') = 2
                /\ Len(queue'["data"]) = 1
                /\ Len(queue'["data"][1].val) = points(hooks'.timeRange)
          /\ RefreshTimer =>
                /\ Len(LoadedSeries) = points(hooks.timeRange)
                /\ \A i \in 1 .. Len(LoadedSeries) - 1 :
                      LoadedSeries[i + 1].timestamp - LoadedSeries[i].timestamp
                          = interval(hooks.timeRange) ]_vars

\* the range was changed to "7d" and rendered, the refresh timer fired after that,
\* and its series is shown: 7 samples, the last one at the time of the firing
C24_Witness ==
    /\ mounted
    /\ hooks.timeRange = "7d"
    /\ now > MountTime
    /\ Len(hooks.data) = 7
    /\ hooks.data[7].timestamp = now
    /\ hooks.lastUpdate = now
    /\ timers = <<[kind |-> "alerts", deps |-> <<>>], [kind |-> "refresh", deps |-> <<"7d">>]>>
    /\ queue = [h \in HookNames |-> <<>>]

----------------------------------------------------------------------------
(* Properties of the sidebar *)

\* what the toggle of panel p queues on the queues q
ToggleOf(p, q) ==
    CASE p = "servers" -> toggleServersPanel(q)
      [] p = "alerts" -> toggleAlertsPanel(q)
      [] p = "users" -> toggleUsersPanel(q)
      [] p = "reports" -> toggleReportsPanel(q)

\* C25: a click on any of the five sidebar items leaves activeSidebarItem with that
\* item for the next render; a click on "dashboard" also leaves isLandingPage
\* false and queues nothing on a panel flag; a click on "servers", "alerts",
\* "users" or "reports" also queues what the toggle of that panel queues (the
\* negation of its rendered flag, and false for the others if it is being
\* shown) and nothing on isLandingPage.  Nothing else is touched.
C25_SidebarItemClick ==
    [][\A item \in SidebarItems :
          handleItemClick(item) =>
              /\ Pending("activeSidebarItem")' = item
              /\ hooks' = hooks
              /\ \A h \in HookNames \ (PanelHooks \cup {"activeSidebarItem", "isLandingPage"}) :
                    queue'[h] = queue[h]
              /\ item = "dashboard" =>
                    /\ Pending("isLandingPage")' = FALSE
                    /\ \A h \in PanelHooks : queue'[h] = queue[h]
              /\ item \in Panels =>
                    /\ queue'["isLandingPage"] = queue["isLandingPage"]
                    /\ \A h \in PanelHooks : queue'[h] = ToggleOf(item, queue)[h]
                    /\ Pending(PanelHookOf(item))' = ~hooks[PanelHookOf(item)] ]_vars

\* the users panel is shown with "users" as the item, on the landing page, and
\* "dashboard" has been clicked: the item and the landing flag will change, the
\* panel flags will not
C25_Witness ==
    /\ ShownPanels = {"users"}
    /\ hooks.activeSidebarItem = "users"
    /\ hooks.isLandingPage
    /\ queue["activeSidebarItem"] # <<>>
    /\ Pending("activeSidebarItem") = "dashboard"
    /\ Pending("isLandingPage") = FALSE
    /\ \A h \in PanelHooks : Empty(h)

\* C27: a right panel that is visible is the item the sidebar highlights, after any
\* clicks on sidebar items and on the close buttons of the panels.
C27_ItemNamesPanel ==
    \A p \in ShownPanels : hooks.activeSidebarItem = p

----------------------------------------------------------------------------
(* Properties of calls made from one render *)

\* C26: every acknowledgeAlert and dismissAlert call made since the last render is
\* in the next one: an alert that a queued call flagged has that flag in the
\* rendered list, also when another call was made after it from the same render.
C26_NoLostUpdate ==
    [][Render =>
          \A k \in DOMAIN queue["alerts"] :
              queue["alerts"][k].kind = "value" =>
                  LET called == queue["alerts"][k].val
                  IN  \A i \in DOMAIN called :
                          \A b \in AlertsWithId(hooks'.alerts, called[i].id) :
                              /\ called[i].acknowledged => b.acknowledged
                              /\ called[i].dismissed => b.dismissed]_vars

----------------------------------------------------------------------------
(* Properties of calls that are each rendered before the next *)

\* the list the page shows once the call on the rendered list has been rendered
AfterAcknowledge(alerts, id) == ProcessQueue(alerts, <<[kind |-> "value", val |-> MapAcknowledged(alerts, id)]>>)
AfterDismiss(alerts, id) == ProcessQueue(alerts, <<[kind |-> "value", val |-> MapDismissed(alerts, id)]>>)

\* the two calls leave the rendered list as one of them does
RepeatsAbsorbed(alerts) ==
    \A a \in Ids(alerts) :
        /\ AfterAcknowledge(AfterAcknowledge(alerts, a), a) = AfterAcknowledge(alerts, a)
        /\ AfterDismiss(AfterDismiss(alerts, a), a) = AfterDismiss(alerts, a)

\* the two calls leave the same list in either order
OrdersAgree(alerts) ==
    \A a \in Ids(alerts), b \in Ids(alerts) :
        AfterDismiss(AfterAcknowledge(alerts, a), b) = AfterAcknowledge(AfterDismiss(alerts, b), a)

\* C28: when each call is rendered before the next one is made, acknowledgeAlert
\* and dismissAlert are idempotent and commute on every list the page shows: for
\* ids a and b of the list, equal or not, acknowledging a twice gives the list of
\* acknowledging it once, dismissing a twice the list of dismissing it once, and
\* acknowledging a then dismissing b the list of dismissing b then acknowledging
\* a.  The lists are those shown with no call waiting for a render.  A call
\* repeated on an alert whose flag is already rendered queues the rendered list
\* itself.
C28_IdempotentAndCommute ==
    /\ [](Empty("alerts") => RepeatsAbsorbed(hooks.alerts) /\ OrdersAgree(hooks.alerts))
    /\ [][\A id \in Ids(hooks.alerts) :
              /\ (acknowledgeAlert(id) /\ Empty("alerts")
                      /\ \A a \in AlertsWithId(hooks.alerts, id) : a.acknowledged)
                    => Pending("alerts")' = hooks.alerts
              /\ (dismissAlert(id) /\ Empty("alerts")
                      /\ \A a \in AlertsWithId(hooks.alerts, id) : a.dismissed)
                    => Pending("alerts")' = hooks.alerts]_vars

\* alert-001 was acknowledged and rendered, alert-002 dismissed and rendered, an
\* injected alert is in the list, and acknowledgeAlert was called for alert-001
\* again
C28_Witness ==
    /\ Len(hooks.alerts) > 5
    /\ \E i \in DOMAIN hooks.alerts, j \in DOMAIN hooks.alerts :
          /\ i # j
          /\ hooks.alerts[i].acknowledged /\ ~hooks.alerts[i].dismissed
          /\ hooks.alerts[j].dismissed /\ ~hooks.alerts[j].acknowledged
    /\ queue["alerts"] = <<[kind |-> "value", val |-> hooks.alerts]>>

----------------------------------------------------------------------------
(* Properties of the badge and the two alert lists *)

\* the alerts of a list, as a set
AlertsOf(list) == {list[i] : i \in DOMAIN list}

\* C29: in every state the page can show, 0 <= notificationCount <= number of
\* alerts that are not dismissed <= number of alerts; the list of
\* NotificationsPanel has exactly notificationCount entries, and each of them is
\* in the active list of AlertsPanel.  The page starts with 5 alerts and
\* notificationCount = 3.
C29_BadgeAndLists ==
    /\ Len(hooks.alerts) = 5 /\ notificationCount = 3
    /\ [](/\ 0 <= notificationCount
          /\ notificationCount <= Len(activeAlerts(hooks.alerts))
          /\ Len(activeAlerts(hooks.alerts)) <= Len(hooks.alerts)
          /\ Len(NotificationsPanelAlerts(hooks.alerts)) = notificationCount
          /\ AlertsOf(NotificationsPanelAlerts(hooks.alerts)) \subseteq AlertsOf(activeAlerts(hooks.alerts)))

\* an injected alert is shown, an alert was dismissed and another acknowledged:
\* the three numbers differ
C29_Witness ==
    /\ Len(hooks.alerts) > 5
    /\ 0 < notificationCount
    /\ notificationCount < Len(activeAlerts(hooks.alerts))
    /\ Len(activeAlerts(hooks.alerts)) < Len(hooks.alerts) - 1
    /\ \E i \in DOMAIN hooks.alerts : hooks.alerts[i].acknowledged /\ ~hooks.alerts[i].dismissed

----------------------------------------------------------------------------
(* Properties of the landing page switch *)

\* the cells of the page other than isLandingPage, data and lastUpdate
KeptCells == ProviderHooks \ {"isLandingPage"}

\* C30: setIsLandingPage(value) queues value for isLandingPage and touches nothing
\* else; the render of a switch to or from the landing page gives every other
\* cell with nothing queued (panel flags, sidebar, notifications and settings
\* flags, expandedWidget, alerts, thresholds, timeRange, darkMode) its old value,
\* and neither the call nor the render changes the timers: the alert timer and
\* the refresh timer armed at mount stay armed, the landing page shown or not.
C30_LandingSwitchFrame ==
    /\ [][\A value \in BOOLEAN :
              setIsLandingPage(value) => OnlyCell("isLandingPage", value)]_vars
    /\ [][(Render /\ hooks'.isLandingPage # hooks.isLandingPage) =>
              /\ \A h \in KeptCells : Empty(h) => hooks'[h] = hooks[h]
              /\ timers' = timers
              /\ mounted' = mounted]_vars
    /\ [](/\ timers = MountedTimers(<<>>)
          /\ Armed("alerts") # {}
          /\ Armed("refresh") # {})

\* the landing page is shown; since its render both timers fired (an injected
\* alert and a regenerated series wait for the next render) and the switch to the
\* dashboard was clicked
C30_Witness ==
    /\ hooks.isLandingPage
    /\ now > MountTime + AlertInterval
    /\ queue["isLandingPage"] = <<[kind |-> "value", val |-> FALSE]>>
    /\ \E k \in DOMAIN queue["alerts"] : queue["alerts"][k].kind = "prepend"
    /\ queue["data"] # <<>>
    /\ timers = MountedTimers(<<>>)

====
